---- MODULE Spec2Model ----
(***************************************************************************)
(* A model of the numerical core of nifty50_stat_arb:                      *)
(*   - PairsTrading (strategy.py): the rolling z-score and the three-state *)
(*     signal loop of generate_signals, and calculate_positions;           *)
(*   - CointegrationAnalyzer (cointegration.py): the pair scan of          *)
(*     test_cointegration and the cached list used by get_top_pairs.       *)
(*                                                                         *)
(* Numbers.  Thresholds are integers in tenths (20 is 2.0).  A z-score is  *)
(* a record [s, n, d] standing for the real number s * sqrt(n / d), with   *)
(* s its sign; d = 0 is NaN.  The rolling z-score of an integer spread is  *)
(* of this form exactly, so every comparison of the code is decided        *)
(* exactly, without rounding.  p-values are integers in hundredths.        *)
(***************************************************************************)
EXTENDS Integers, Sequences, FiniteSets, TLC

VARIABLES
    entry_threshold,     \* PairsTrading.entry_threshold (tenths)
    exit_threshold,      \* PairsTrading.exit_threshold (tenths)
    stop_loss,           \* PairsTrading.stop_loss (tenths)
    lookback_period,     \* PairsTrading.lookback_period
    zscore,              \* generate_signals: the z-scores read so far, zscore.iloc[0 .. i-1]
    signals,             \* generate_signals: the signals written so far, signals.iloc[0 .. i-1]
    position,            \* generate_signals: the local variable position
    prices,              \* calculate_positions: the price rows <<price1, price2>> it was given
    hedge_ratio,         \* calculate_positions: its hedge_ratio argument
    spread,              \* calculate_positions: the spread it returns
    positions,           \* calculate_positions: the rows of the positions DataFrame it returns
    returns,             \* calculate_returns: the strategy returns it returns
    cumulative_returns,  \* run_strategy: results['cumulative_returns']
    pc,                  \* where the modelled call is: "loop", "call", "done", "returned"
    significance_level,  \* CointegrationAnalyzer.significance_level (hundredths)
    cointegrated_pairs,  \* CointegrationAnalyzer.cointegrated_pairs
    n_scans,             \* how many times test_cointegration has run on this analyzer
    last_call,           \* the last call on the analyzer, its arguments and what it returned
    initial_capital,     \* Backtester.initial_capital
    results,             \* Backtester.results: pair name -> stored result
    m_returns,           \* calculate_metrics: its returns argument
    m_positions,         \* calculate_metrics: its positions argument (or None)
    metrics,             \* calculate_metrics: what the call did (the record, or raised)
    bt_call,             \* the last call on the backtester, its arguments and what it returned
    backtested           \* per pair name, how many backtest_pair of it have completed

vars == <<entry_threshold, exit_threshold, stop_loss, lookback_period, zscore,
          signals, position, prices, hedge_ratio, spread, positions,
          returns, cumulative_returns, pc,
          significance_level,
          cointegrated_pairs, n_scans, last_call,
          initial_capital, results, m_returns, m_positions, metrics, bt_call,
          backtested>>

strategy_vars == <<entry_threshold, exit_threshold, stop_loss, lookback_period,
                   zscore, signals, position, prices, hedge_ratio, spread,
                   positions, returns, cumulative_returns, pc>>

analyzer_vars == <<significance_level, cointegrated_pairs, n_scans, last_call>>

backtest_vars == <<initial_capital, results, m_returns, m_positions, metrics,
                   bt_call, backtested>>

(***************************************************************************)
(* Bounds of the model.                                                    *)
(***************************************************************************)
\* the longest z-score series generate_signals is run on exhaustively
MaxLen == 3

\* the most rows of a price matrix given to calculate_positions
MaxRows == 3

\* the largest lookback_period of an engine that calculate_positions is run on
MaxLookback == 3

\* the most columns of a price matrix given to one test_cointegration
MaxStocks == 3

\* the most scans run on one analyzer
MaxScans == 2

\* the largest n_pairs given to get_top_pairs
MaxTop == 2

(***************************************************************************)
(* Program constants: the defaults of the constructors.                    *)
(***************************************************************************)
DefaultEntryThreshold == 20

DefaultExitThreshold == 5

DefaultStopLoss == 40

DefaultLookbackPeriod == 60

DefaultSignificanceLevel == 5

DefaultInitialCapital == 100000

\* calculate_metrics: n_years = n_days / 252
TradingDays == 252

(***************************************************************************)
(* z-scores.                                                               *)
(***************************************************************************)
NaN == [s |-> 0, n |-> 0, d |-> 0]

IsNa(z) == z.d = 0

Sign(v) == IF v > 0 THEN 1 ELSE IF v < 0 THEN -1 ELSE 0

\* the z-score v / 10
Tenths(v) == [s |-> Sign(v), n |-> v * v, d |-> 100]

\* z > t / 10, for a defined z
Gt(z, t) ==
    IF t >= 0 THEN z.s = 1 /\ z.n * 100 > t * t * z.d
              ELSE z.s >= 0 \/ z.n * 100 < t * t * z.d

\* z < t / 10, for a defined z
Lt(z, t) ==
    IF t <= 0 THEN z.s = -1 /\ z.n * 100 > t * t * z.d
              ELSE z.s <= 0 \/ z.n * 100 < t * t * z.d

Last(q) == q[Len(q)]

(***************************************************************************)
(* PairsTrading.generate_signals: one iteration of its loop.  Each branch  *)
(* gives the new value of position and the value written to signals.iloc[i]*)
(***************************************************************************)
\* if pd.isna(z): signals.iloc[i] = position; continue
NaNBranchWritesFlat(pos) == [position |-> pos, signal |-> 0]

NaNBranch(pos) == [position |-> pos, signal |-> pos]

\* if position == 0: ...
FlatBranchInclusive(z, entry) ==
    IF ~Lt(z, entry) THEN [position |-> -1, signal |-> -1]
    ELSE IF ~Gt(z, -entry) THEN [position |-> 1, signal |-> 1]
    ELSE [position |-> 0, signal |-> 0]

FlatBranchSidesSwapped(z, entry) ==
    IF Gt(z, entry) THEN [position |-> 1, signal |-> 1]
    ELSE IF Lt(z, -entry) THEN [position |-> -1, signal |-> -1]
    ELSE [position |-> 0, signal |-> 0]

FlatBranch(z, entry) ==
    IF Gt(z, entry) THEN [position |-> -1, signal |-> -1]
    ELSE IF Lt(z, -entry) THEN [position |-> 1, signal |-> 1]
    ELSE [position |-> 0, signal |-> 0]

\* elif position == 1: ...
LongBranchStopOnly(z, exit, stop) ==
    IF Gt(z, -exit) /\ Gt(z, stop) THEN [position |-> 0, signal |-> 0]
    ELSE [position |-> 1, signal |-> 1]

\* a LONG position that reverses to SHORT when z passes stop_loss
LongBranchReverses(z, exit, stop) ==
    IF Gt(z, stop) THEN [position |-> -1, signal |-> -1]
    ELSE IF Gt(z, -exit) THEN [position |-> 0, signal |-> 0]
    ELSE [position |-> 1, signal |-> 1]

\* a LONG position that is stopped out when z falls below -stop_loss
LongBranchStopsOut(z, exit, stop) ==
    IF Gt(z, -exit) \/ Lt(z, -stop) THEN [position |-> 0, signal |-> 0]
    ELSE [position |-> 1, signal |-> 1]

LongBranch(z, exit, stop) ==
    IF Gt(z, -exit) \/ Gt(z, stop) THEN [position |-> 0, signal |-> 0]
    ELSE [position |-> 1, signal |-> 1]

\* elif position == -1: ...
ShortBranchInclusive(z, exit, stop) ==
    IF ~Gt(z, exit) \/ Lt(z, -stop) THEN [position |-> 0, signal |-> 0]
    ELSE [position |-> -1, signal |-> -1]

ShortBranch(z, exit, stop) ==
    IF Lt(z, exit) \/ Lt(z, -stop) THEN [position |-> 0, signal |-> 0]
    ELSE [position |-> -1, signal |-> -1]

\* the body of `for i in range(len(zscore))`
LoopBody(pos, z, entry, exit, stop) ==
    IF IsNa(z) THEN NaNBranch(pos)
    ELSE IF pos = 0 THEN FlatBranch(z, entry)
    ELSE IF pos = 1 THEN LongBranch(z, exit, stop)
    ELSE IF pos = -1 THEN ShortBranch(z, exit, stop)
    ELSE [position |-> pos, signal |-> 0]

\* generate_signals from iteration i on, position being pos: the signals
\* written at i .. len(zscore) - 1 and the final value of position
RECURSIVE SignalLoop(_, _, _, _, _, _)
SignalLoop(zs, i, pos, entry, exit, stop) ==
    IF i > Len(zs) THEN [signals |-> <<>>, position |-> pos]
    ELSE LET r == LoopBody(pos, zs[i], entry, exit, stop)
             rest == SignalLoop(zs, i + 1, r.position, entry, exit, stop)
         IN  [signals |-> <<r.signal>> \o rest.signals, position |-> rest.position]

\* signals = pd.Series(index=zscore.index, data=0); position = 0; the loop
GenerateSignals(zs, entry, exit, stop) == SignalLoop(zs, 1, 0, entry, exit, stop)

(***************************************************************************)
(* PairsTrading.calculate_zscore.  Series.rolling(window) has min_periods  *)
(* = window: the mean and the std are NaN until the window is full.  The   *)
(* std is the sample std (ddof = 1): NaN over a window of one, 0 over a    *)
(* constant window, where (spread - mean) / std is 0 / 0, NaN.  With S and *)
(* Q the sum and the sum of squares of the window of size L ending at x:   *)
(*   mean = S / L, std^2 = (L*Q - S*S) / (L*(L-1)),                        *)
(*   z = (x - mean) / std = sign(L*x - S) *                                *)
(*         sqrt((L*x - S)^2 * (L-1) / (L * (L*Q - S*S))).                  *)
(***************************************************************************)
RECURSIVE SumOver(_, _, _)
SumOver(q, lo, hi) == IF lo > hi THEN 0 ELSE q[lo] + SumOver(q, lo + 1, hi)

RECURSIVE SumSqOver(_, _, _)
SumSqOver(q, lo, hi) == IF lo > hi THEN 0 ELSE q[lo] * q[lo] + SumSqOver(q, lo + 1, hi)

\* the z-score at row t (from 1) of the window of w rows ending there
WindowZ(q, t, w) ==
    LET S == SumOver(q, t - w + 1, t)
        Q == SumSqOver(q, t - w + 1, t)
        dev == w * q[t] - S
        den == w * (w * Q - S * S)
    IN  IF den = 0 THEN NaN
        ELSE [s |-> Sign(dev), n |-> dev * dev * (w - 1), d |-> den]

\* a rolling window that yields a value as soon as it holds one row
CalculateZscorePartialWindow(q, lookback) ==
    [t \in 1..Len(q) |-> WindowZ(q, t, IF t < lookback THEN t ELSE lookback)]

CalculateZscore(q, lookback) ==
    [t \in 1..Len(q) |-> IF t < lookback THEN NaN ELSE WindowZ(q, t, lookback)]

(***************************************************************************)
(* PairsTrading.calculate_positions                                        *)
(***************************************************************************)
\* spread = prices[stock1] - hedge_ratio * prices[stock2]
SpreadOf(rows, h) == [t \in 1..Len(rows) |-> rows[t][1] - h * rows[t][2]]

\* positions that keep the hedge leg of stock2 while the signal is FLAT
PositionsOfKeepsHedge(sig, h) ==
    [t \in 1..Len(sig) |->
        [signal |-> sig[t], stock1 |-> sig[t],
         stock2 |-> IF sig[t] = 1 THEN -h ELSE h]]

\* positions['signal'], positions[stock1], positions[stock2]
PositionsOf(sig, h) ==
    [t \in 1..Len(sig) |-> [signal |-> sig[t], stock1 |-> sig[t], stock2 |-> -sig[t] * h]]

(***************************************************************************)
(* Returns are rational numbers: records [num, den] in lowest terms with   *)
(* den > 0; den = 0 is NaN.  An operation on a NaN gives NaN.              *)
(***************************************************************************)
RNaN == [num |-> 0, den |-> 0]

RIsNa(x) == x.den = 0

Abs(v) == IF v < 0 THEN -v ELSE v

RECURSIVE Gcd(_, _)
Gcd(a, b) == IF b = 0 THEN a ELSE Gcd(b, a % b)

\* n / d in lowest terms; prices are positive, so 0 is never divided by
Ratio(n, d) ==
    IF d = 0 THEN RNaN
    ELSE LET g == Gcd(Abs(n), Abs(d))
         IN  [num |-> (IF d < 0 THEN -1 ELSE 1) * Sign(n) * (Abs(n) \div g),
              den |-> Abs(d) \div g]

RInt(v) == [num |-> v, den |-> 1]

RAdd(a, b) ==
    IF RIsNa(a) \/ RIsNa(b) THEN RNaN
    ELSE Ratio(a.num * b.den + b.num * a.den, a.den * b.den)

RSub(a, b) ==
    IF RIsNa(a) \/ RIsNa(b) THEN RNaN
    ELSE Ratio(a.num * b.den - b.num * a.den, a.den * b.den)

RMul(a, b) ==
    IF RIsNa(a) \/ RIsNa(b) THEN RNaN ELSE Ratio(a.num * b.num, a.den * b.den)

RDiv(a, b) ==
    IF RIsNa(a) \/ RIsNa(b) THEN RNaN ELSE Ratio(a.num * b.den, a.den * b.num)

\* a < b, for defined a and b
RLt(a, b) == a.num * b.den < b.num * a.den

(***************************************************************************)
(* PairsTrading.calculate_returns and the cumulative returns of            *)
(* run_strategy                                                            *)
(***************************************************************************)
\* Series.pct_change(): NaN at the first row, then (x[t] - x[t-1]) / x[t-1]
PctChange(q) ==
    [t \in 1..Len(q) |->
        IF t = 1 THEN RNaN ELSE RDiv(RInt(q[t] - q[t - 1]), RInt(q[t - 1]))]

\* a series used at its own timestep, without the lag
NoShift(q) == [t \in 1..Len(q) |-> RInt(q[t])]

\* Series.shift(1): NaN at the first row, then the value of the row before
Shift1(q) == [t \in 1..Len(q) |-> IF t = 1 THEN RNaN ELSE RInt(q[t - 1])]

\* Series.fillna(0)
FillNa0(q) == [t \in 1..Len(q) |-> IF RIsNa(q[t]) THEN RInt(0) ELSE q[t]]

\* calculate_returns(prices, positions, stock1, stock2)
CalculateReturns(rows, pos) ==
    LET ret1 == PctChange([t \in 1..Len(rows) |-> rows[t][1]])
        ret2 == PctChange([t \in 1..Len(rows) |-> rows[t][2]])
        lag1 == Shift1([t \in 1..Len(pos) |-> pos[t].stock1])
        lag2 == Shift1([t \in 1..Len(pos) |-> pos[t].stock2])
    IN  FillNa0([t \in 1..Len(rows) |->
                    RAdd(RMul(lag1[t], ret1[t]), RMul(lag2[t], ret2[t]))])

\* the product of 1 + q[1], ..., 1 + q[t]
RECURSIVE CumProd(_, _)
CumProd(q, t) == IF t = 0 THEN RInt(1) ELSE RMul(CumProd(q, t - 1), RAdd(RInt(1), q[t]))

\* (1 + returns).cumprod() - 1
CumulativeReturns(q) == [t \in 1..Len(q) |-> RSub(CumProd(q, t), RInt(1))]

(***************************************************************************)
(* Backtester.calculate_metrics.  A field that is None is [none |-> TRUE]; *)
(* a power b^e - 1 and a quotient are kept as their operands, the values   *)
(* that are exactly 0 in one form.                                         *)
(***************************************************************************)
\* positions = None
NoPositions == [given |-> FALSE, signal |-> <<>>]

\* calculate_metrics not called
NoMetrics == [called |-> FALSE, raised |-> FALSE, record |-> <<>>]

NoneValue == [none |-> TRUE, value |-> RNaN]

NoneCount == [none |-> TRUE, value |-> 0]

Some(v) == [none |-> FALSE, value |-> v]

\* the literal 0 of an annualized return; also 1 ** e - 1
AnnualizedZero == [base |-> RInt(1), exp |-> RInt(1)]

\* base ** exp - 1
Annualized(base, exp) ==
    IF base = RInt(1) THEN AnnualizedZero ELSE [base |-> base, exp |-> exp]

\* the literal 0 of calmar_ratio; also 0 / d for a defined nonzero d
ZeroQuotient == [ann |-> AnnualizedZero, over |-> RInt(1)]

\* ann / d
Quotient(ann, d) ==
    IF ann = AnnualizedZero /\ ~RIsNa(d) /\ d # RInt(0) THEN ZeroQuotient
    ELSE [ann |-> ann, over |-> d]

\* (1 + returns).cumprod()
Cumulative(q) == [t \in 1..Len(q) |-> CumProd(q, t)]

RMax(a, b) == IF RLt(a, b) THEN b ELSE a

\* a running maximum that starts from the initial value 1 of the curve
RECURSIVE RunningMaxFromOne(_, _)
RunningMaxFromOne(q, t) ==
    IF t = 0 THEN RInt(1) ELSE RMax(RunningMaxFromOne(q, t - 1), q[t])

\* cumulative.expanding().max() at row t
RECURSIVE ExpandingMax(_, _)
ExpandingMax(q, t) == IF t = 1 THEN q[1] ELSE RMax(ExpandingMax(q, t - 1), q[t])

\* (cumulative - running_max) / running_max
Drawdown(q) ==
    LET cumulative == Cumulative(q)
    IN  [t \in 1..Len(q) |->
            RDiv(RSub(cumulative[t], ExpandingMax(cumulative, t)),
                 ExpandingMax(cumulative, t))]

\* Series.min(): the least defined value, NaN if there is none
SeriesMin(q) ==
    LET defined == {t \in 1..Len(q) : ~RIsNa(q[t])}
    IN  IF defined = {} THEN RNaN
        ELSE q[CHOOSE t \in defined : \A u \in defined : ~RLt(q[u], q[t])]

RECURSIVE SeriesSum(_, _)
SeriesSum(q, t) == IF t = 0 THEN RInt(0) ELSE RAdd(SeriesSum(q, t - 1), q[t])

\* Series.mean() of a non-empty series
SeriesMean(q) == RDiv(SeriesSum(q, Len(q)), RInt(Len(q)))

\* the square of Series.std() (ddof = 1): NaN for fewer than two values
SeriesVar(q) ==
    IF Len(q) < 2 THEN RNaN
    ELSE LET mean == SeriesMean(q)
             dev2 == [t \in 1..Len(q) |-> RMul(RSub(q[t], mean), RSub(q[t], mean))]
         IN  RDiv(SeriesSum(dev2, Len(q)), RInt(Len(q) - 1))

\* positions.diff().fillna(0)
PositionChanges(sig) ==
    [t \in 1..Len(sig) |-> IF t = 1 THEN 0 ELSE sig[t] - sig[t - 1]]

\* q[mask], from row t on
RECURSIVE Masked(_, _, _)
Masked(q, mask, t) ==
    IF t > Len(q) THEN <<>>
    ELSE (IF mask[t] THEN <<q[t]>> ELSE <<>>) \o Masked(q, mask, t + 1)

\* returns[position_changes != 0]
Trades(q, sig) ==
    Masked(q, [t \in 1..Len(sig) |-> PositionChanges(sig)[t] # 0], 1)

IsWin(r) == RLt(RInt(0), r)

IsLoss(r) == RLt(r, RInt(0))

\* calculate_metrics(returns = q, positions = pos)
CalculateMetrics(q, pos) ==
    IF Len(q) = 0
    THEN \* cumulative_returns.iloc[-1] raises IndexError
         [called |-> TRUE, raised |-> TRUE, record |-> <<>>]
    ELSE
    LET total_return == RSub(Cumulative(q)[Len(q)], RInt(1))
        n_days == Len(q)
        annualized_return ==
            IF n_days > 0
            THEN Annualized(RAdd(RInt(1), total_return), Ratio(TradingDays, n_days))
            ELSE AnnualizedZero
        variance == RMul(SeriesVar(q), RInt(TradingDays))
        positive == ~RIsNa(variance) /\ RLt(RInt(0), variance)
        max_drawdown == SeriesMin(Drawdown(q))
        trades == IF pos.given THEN Trades(q, pos.signal) ELSE <<>>
        winning_trades == SelectSeq(trades, IsWin)
        losing_trades == SelectSeq(trades, IsLoss)
        traded == pos.given /\ Len(trades) > 0
    IN  [called |-> TRUE, raised |-> FALSE, record |->
          [total_return |-> total_return,
           annualized_return |-> annualized_return,
           annualized_volatility |-> [sq |-> variance],
           sharpe_ratio |-> IF positive
                            THEN [ann |-> annualized_return, vol |-> [sq |-> variance]]
                            ELSE [ann |-> AnnualizedZero, vol |-> [sq |-> RInt(1)]],
           max_drawdown |-> max_drawdown,
           calmar_ratio |-> IF max_drawdown # RInt(0)
                            THEN Quotient(annualized_return,
                                          IF RIsNa(max_drawdown) THEN RNaN
                                          ELSE Ratio(Abs(max_drawdown.num),
                                                     max_drawdown.den))
                            ELSE ZeroQuotient,
           win_rate |-> IF traded
                        THEN Some(Ratio(Len(winning_trades), Len(trades)))
                        ELSE NoneValue,
           n_trades |-> IF traded THEN Some(Len(trades)) ELSE NoneCount,
           avg_win |-> IF traded
                       THEN Some(IF Len(winning_trades) > 0
                                 THEN SeriesMean(winning_trades) ELSE RInt(0))
                       ELSE NoneValue,
           avg_loss |-> IF traded
                        THEN Some(IF Len(losing_trades) > 0
                                  THEN SeriesMean(losing_trades) ELSE RInt(0))
                        ELSE NoneValue]]

(***************************************************************************)
(* Inputs.                                                                 *)
(***************************************************************************)
\* the constructor takes any numbers: the defaults, 0 and a negative one
ThresholdValues == {-5, 0, DefaultExitThreshold, DefaultEntryThreshold, DefaultStopLoss}

\* the z-scores of the exhaustive series: NaN, 0, and the default
\* thresholds, their negations and values beyond them
AlphabetValues == {-45, -20, -5, 0, 5, 20, 45}

ZAlphabet == {NaN} \cup {Tenths(v) : v \in AlphabetValues}

\* the path 0, 2.5, 1.0, 0.3, -0.1
ExampleValues == <<0, 25, 10, 3, -1>>

ExamplePath == [k \in 1..Len(ExampleValues) |-> Tenths(ExampleValues[k])]

Range(q) == {q[k] : k \in 1..Len(q)}

\* the z-score series generate_signals is run on: every series over
\* ZAlphabet of at most MaxLen values, and ExamplePath (and its prefixes)
InputSeries(zs) ==
    \/ Len(zs) <= MaxLen /\ Range(zs) \subseteq ZAlphabet
    \/ Len(zs) <= Len(ExamplePath) /\ zs = SubSeq(ExamplePath, 1, Len(zs))

\* thresholds of the engines calculate_positions is run on: a window of
\* L rows bounds |z| by (L - 1) / sqrt(L), so only low thresholds are crossed
LowThresholdValues == {DefaultExitThreshold, DefaultEntryThreshold}

PriceRows == {<<p1, p2>> : p1 \in {1, 2, 3}, p2 \in {1, 2}}

PriceMatrices == UNION {[1..k -> PriceRows] : k \in 0..MaxRows}

HedgeRatios == {1, 2}

(***************************************************************************)
(* CointegrationAnalyzer.  A price matrix is its column list and, for each *)
(* pair of columns, what statsmodels' coint does on the two series: raise, *)
(* or return a p-value.  coint is a library function of the two series, so *)
(* the matrix is given by these outcomes.                                  *)
(***************************************************************************)
Raises == [raised |-> TRUE, pvalue |-> 0]

Pv(p) == [raised |-> FALSE, pvalue |-> p]

\* for stock1, stock2 in combinations(stocks, 2), in that order
RECURSIVE CombinationsFrom(_, _, _)
CombinationsFrom(cols, i, j) ==
    IF i >= Len(cols) THEN <<>>
    ELSE IF j > Len(cols) THEN CombinationsFrom(cols, i + 1, i + 2)
    ELSE <<<<cols[i], cols[j]>>>> \o CombinationsFrom(cols, i, j + 1)

Combinations(cols) == CombinationsFrom(cols, 1, 2)

\* if pvalue < self.significance_level
RetainedInclusive(pvalue, level) == pvalue <= level

Retained(pvalue, level) == pvalue < level

\* the loop of test_cointegration over the pairs still to test
RECURSIVE ScanLoop(_, _, _, _)

\* except Exception as e: continue
OnExceptionBreak(P, todo, level, acc) == [cointegrated |-> acc, raised |-> FALSE]

OnException(P, todo, level, acc) == ScanLoop(P, Tail(todo), level, acc)

ScanLoop(P, todo, level, acc) ==
    IF todo = <<>> THEN [cointegrated |-> acc, raised |-> FALSE]
    ELSE LET pair == Head(todo)
             r == P.coint[pair]
         IN  IF r.raised THEN OnException(P, todo, level, acc)
             ELSE IF Retained(r.pvalue, level)
             THEN ScanLoop(P, Tail(todo), level,
                           Append(acc, <<pair[1], pair[2], r.pvalue>>))
             ELSE ScanLoop(P, Tail(todo), level, acc)

\* list.sort(key=lambda x: x[2]) is stable: an element goes after the
\* elements of the sorted prefix whose key is not larger
RECURSIVE InsertAfterEqual(_, _)
InsertAfterEqual(x, q) ==
    IF q = <<>> THEN <<x>>
    ELSE IF x[3] < Head(q)[3] THEN <<x>> \o q
    ELSE <<Head(q)>> \o InsertAfterEqual(x, Tail(q))

RECURSIVE InsertBeforeEqual(_, _)
InsertBeforeEqual(x, q) ==
    IF q = <<>> THEN <<x>>
    ELSE IF x[3] <= Head(q)[3] THEN <<x>> \o q
    ELSE <<Head(q)>> \o InsertBeforeEqual(x, Tail(q))

RECURSIVE SortFrom(_, _, _)
SortFrom(q, k, sorted) ==
    IF k > Len(q) THEN sorted ELSE SortFrom(q, k + 1, InsertAfterEqual(q[k], sorted))

RECURSIVE SortFromUnstable(_, _, _)
SortFromUnstable(q, k, sorted) ==
    IF k > Len(q) THEN sorted
    ELSE SortFromUnstable(q, k + 1, InsertBeforeEqual(q[k], sorted))

SortByPvalueUnstable(q) == SortFromUnstable(q, 1, <<>>)

SortByPvalue(q) == SortFrom(q, 1, <<>>)

\* test_cointegration: the list it stores and returns, or raised when an
\* exception leaves it
ScanOf(P, level) ==
    LET r == ScanLoop(P, Combinations(P.columns), level, <<>>)
    IN  [cointegrated |-> SortByPvalue(r.cointegrated), raised |-> r.raised]

\* q[:n]
Slice(q, n) ==
    IF n >= 0 THEN SubSeq(q, 1, IF n < Len(q) THEN n ELSE Len(q))
    ELSE SubSeq(q, 1, Len(q) + n)

\* analyze_pair reads prices[stock1] and prices[stock2]: a KeyError when
\* one is not a column
HasColumns(P, s1, s2) == s1 \in Range(P.columns) /\ s2 \in Range(P.columns)

\* analyze_pair(prices, stock1, stock2): the hedge ratio, the spread
\* statistics, the ADF test and the correlation are functions of the two
\* columns of prices; then analysis['coint_pvalue'] = coint_pvalue
AnalysisRow(P, c) ==
    [stock1 |-> c[1], stock2 |-> c[2], prices |-> P, coint_pvalue |-> c[3]]

StockNames == <<"A", "B", "C", "D">>

ColumnLists == {SubSeq(StockNames, 1, k) : k \in 0..MaxStocks} \cup {<<"B", "A">>}

Outcomes == {Raises, Pv(1), Pv(3), Pv(5)}

MatricesOver(lists, outcomes) ==
    UNION {{[columns |-> c, coint |-> f] : f \in [Range(Combinations(c)) -> outcomes]}
           : c \in lists}

Matrices == MatricesOver(ColumnLists, Outcomes)

SignificanceLevels == {3, DefaultSignificanceLevel}

NoMatrix == [columns |-> <<>>, coint |-> <<>>]

NoCall == [op |-> "none", prices |-> NoMatrix, n_pairs |-> 0,
           returned |-> <<>>, frame |-> <<>>, raised |-> FALSE]

\* no call made on the backtester
NoBtCall == [op |-> "none", n_calls |-> 0, pairs |-> <<>>, returned |-> <<>>,
             raised |-> FALSE]

AnalyzerIdle ==
    /\ significance_level = DefaultSignificanceLevel
    /\ cointegrated_pairs = <<>>
    /\ n_scans = 0
    /\ last_call = NoCall

\* a backtester nothing has been called on
BacktesterIdle ==
    /\ initial_capital = DefaultInitialCapital
    /\ results = <<>>
    /\ m_returns = <<>>
    /\ m_positions = NoPositions
    /\ metrics = NoMetrics
    /\ bt_call = NoBtCall
    /\ backtested = <<>>

(***************************************************************************)
(* Spec: generate_signals, iteration by iteration, on an engine built with *)
(* any thresholds.                                                         *)
(***************************************************************************)
Init ==
    /\ entry_threshold \in ThresholdValues
    /\ exit_threshold \in ThresholdValues
    /\ stop_loss \in ThresholdValues
    /\ lookback_period = DefaultLookbackPeriod
    /\ zscore = <<>>
    /\ signals = <<>>
    /\ position = 0
    /\ prices = <<>>
    /\ hedge_ratio = 1
    /\ spread = <<>>
    /\ positions = <<>>
    /\ returns = <<>>
    /\ cumulative_returns = <<>>
    /\ pc = "loop"
    /\ AnalyzerIdle
    /\ BacktesterIdle

\* one iteration of the loop of generate_signals, reading z = zscore.iloc[i]
Iterate(z) ==
    /\ InputSeries(Append(zscore, z))
    /\ LET r == LoopBody(position, z, entry_threshold, exit_threshold, stop_loss)
       IN  /\ position' = r.position
           /\ signals' = Append(signals, r.signal)
    /\ zscore' = Append(zscore, z)
    /\ UNCHANGED <<entry_threshold, exit_threshold, stop_loss, lookback_period,
                   prices, hedge_ratio, spread, positions, returns,
                   cumulative_returns, pc>>
    /\ UNCHANGED analyzer_vars
    /\ UNCHANGED backtest_vars

Next == \E z \in ZAlphabet \cup Range(ExamplePath) : Iterate(z)

Spec == Init /\ [][Next]_vars

(***************************************************************************)
(* SpecPositions: calculate_positions, called once on an engine built with *)
(* any lookback_period up to MaxLookback; the arguments of the call are    *)
(* drawn in the initial state.                                             *)
(***************************************************************************)
InitPositions ==
    /\ entry_threshold \in LowThresholdValues
    /\ exit_threshold \in LowThresholdValues
    /\ stop_loss \in LowThresholdValues
    /\ lookback_period \in 1..MaxLookback
    /\ zscore = <<>>
    /\ signals = <<>>
    /\ position = 0
    /\ prices \in PriceMatrices
    /\ hedge_ratio \in HedgeRatios
    /\ spread = <<>>
    /\ positions = <<>>
    /\ returns = <<>>
    /\ cumulative_returns = <<>>
    /\ pc = "call"
    /\ AnalyzerIdle
    /\ BacktesterIdle

CalculatePositions ==
    LET sp == SpreadOf(prices, hedge_ratio)
        zs == CalculateZscore(sp, lookback_period)
        g == GenerateSignals(zs, entry_threshold, exit_threshold, stop_loss)
    IN  /\ pc = "call"
        /\ pc' = "done"
        /\ spread' = sp
        /\ zscore' = zs
        /\ signals' = g.signals
        /\ position' = g.position
        /\ positions' = PositionsOf(g.signals, hedge_ratio)
        /\ UNCHANGED <<entry_threshold, exit_threshold, stop_loss, lookback_period,
                       prices, hedge_ratio, returns, cumulative_returns>>
        /\ UNCHANGED analyzer_vars
        /\ UNCHANGED backtest_vars

\* run_strategy, after calculate_positions: the returns and their cumulation
RunStrategyReturns ==
    LET ret == CalculateReturns(prices, positions)
    IN  /\ pc = "done"
        /\ pc' = "returned"
        /\ returns' = ret
        /\ cumulative_returns' = CumulativeReturns(ret)
        /\ UNCHANGED <<entry_threshold, exit_threshold, stop_loss, lookback_period,
                       zscore, signals, position, prices, hedge_ratio, spread,
                       positions>>
        /\ UNCHANGED analyzer_vars
        /\ UNCHANGED backtest_vars

NextPositions == CalculatePositions \/ RunStrategyReturns

SpecPositions == InitPositions /\ [][NextPositions]_vars

EngineIdle ==
    /\ entry_threshold = DefaultEntryThreshold
    /\ exit_threshold = DefaultExitThreshold
    /\ stop_loss = DefaultStopLoss
    /\ lookback_period = DefaultLookbackPeriod
    /\ zscore = <<>>
    /\ signals = <<>>
    /\ position = 0
    /\ prices = <<>>
    /\ hedge_ratio = 1
    /\ spread = <<>>
    /\ positions = <<>>
    /\ returns = <<>>
    /\ cumulative_returns = <<>>

\* test_cointegration(prices = P) on the analyzer
TestCointegration(P) ==
    LET r == ScanOf(P, significance_level)
    IN  /\ n_scans < MaxScans
        /\ n_scans' = n_scans + 1
        /\ cointegrated_pairs' = IF r.raised THEN cointegrated_pairs ELSE r.cointegrated
        /\ last_call' = [op |-> "test_cointegration", prices |-> P, n_pairs |-> 0,
                          returned |-> IF r.raised THEN <<>> ELSE r.cointegrated,
                          frame |-> <<>>, raised |-> r.raised]
        /\ UNCHANGED significance_level

\* get_top_pairs(prices = P, n_pairs = n) on the analyzer
GetTopPairs(P, n) ==
    LET scans == (cointegrated_pairs = <<>>)
        r == IF scans THEN ScanOf(P, significance_level)
             ELSE [cointegrated |-> cointegrated_pairs, raised |-> FALSE]
        cached == IF r.raised THEN cointegrated_pairs ELSE r.cointegrated
        top == Slice(cached, n)
        keyError == \E k \in 1..Len(top) : ~HasColumns(P, top[k][1], top[k][2])
        raised == r.raised \/ keyError
    IN  /\ scans => n_scans < MaxScans
        /\ n_scans' = IF scans THEN n_scans + 1 ELSE n_scans
        /\ cointegrated_pairs' = cached
        /\ last_call' = [op |-> "get_top_pairs", prices |-> P, n_pairs |-> n,
                          returned |-> <<>>,
                          frame |-> IF raised THEN <<>>
                                    ELSE [k \in 1..Len(top) |-> AnalysisRow(P, top[k])],
                          raised |-> raised]
        /\ UNCHANGED significance_level

(***************************************************************************)
(* SpecScan: one test_cointegration on a new analyzer; the price matrix is *)
(* drawn in the initial state.                                             *)
(***************************************************************************)
InitScan ==
    /\ EngineIdle
    /\ pc = "call"
    /\ significance_level \in SignificanceLevels
    /\ cointegrated_pairs = <<>>
    /\ n_scans = 0
    /\ last_call \in {[NoCall EXCEPT !.prices = P] : P \in Matrices}
    /\ BacktesterIdle

TestCointegrationCall ==
    /\ pc = "call"
    /\ pc' = "done"
    /\ TestCointegration(last_call.prices)
    /\ UNCHANGED <<entry_threshold, exit_threshold, stop_loss, lookback_period,
                   zscore, signals, position, prices, hedge_ratio, spread, positions,
                   returns, cumulative_returns>>
    /\ UNCHANGED backtest_vars

NextScan == TestCointegrationCall

SpecScan == InitScan /\ [][NextScan]_vars

(***************************************************************************)
(* SpecAnalyzer: any sequence of test_cointegration and get_top_pairs on   *)
(* one analyzer, over a few price matrices.                                *)
(***************************************************************************)
\* over A, B, C every pair has p = 0.01 or p = 0.03 (found or not, by the
\* level); over B, A the pair has one of these, or its test raises
AnalyzerMatrices ==
    MatricesOver({<<"A", "B", "C">>}, {Pv(1), Pv(3)})
        \cup MatricesOver({<<"B", "A">>}, {Raises, Pv(1), Pv(3)})

TopCounts == -1..MaxTop

InitAnalyzer ==
    /\ EngineIdle
    /\ pc = "calls"
    /\ significance_level \in SignificanceLevels
    /\ cointegrated_pairs = <<>>
    /\ n_scans = 0
    /\ last_call = NoCall
    /\ BacktesterIdle

CallTestCointegration ==
    /\ \E P \in AnalyzerMatrices : TestCointegration(P)
    /\ UNCHANGED strategy_vars
    /\ UNCHANGED backtest_vars

CallGetTopPairs ==
    /\ \E P \in AnalyzerMatrices, n \in TopCounts : GetTopPairs(P, n)
    /\ UNCHANGED strategy_vars
    /\ UNCHANGED backtest_vars

NextAnalyzer == CallTestCointegration \/ CallGetTopPairs

SpecAnalyzer == InitAnalyzer /\ [][NextAnalyzer]_vars

(***************************************************************************)
(* SpecMetrics: one calculate_metrics; the return series and the position  *)
(* series (or None) are drawn in the initial state.                        *)
(***************************************************************************)
MaxDays == 3

\* daily returns: -100%, -50%, 0, +50%
ReturnValues == {RInt(-1), Ratio(-1, 2), RInt(0), Ratio(1, 2)}

SignalValues == {-1, 0, 1}

ReturnSeries == UNION {[1..n -> ReturnValues] : n \in 0..MaxDays}

\* the positions argument for a return series q: None, or signals on q's index
PositionSeries(q) ==
    {NoPositions} \cup
    {[given |-> TRUE, signal |-> sig] : sig \in [1..Len(q) -> SignalValues]}

InitMetrics ==
    /\ EngineIdle
    /\ pc = "call"
    /\ AnalyzerIdle
    /\ initial_capital = DefaultInitialCapital
    /\ results = <<>>
    /\ m_returns \in ReturnSeries
    /\ m_positions \in PositionSeries(m_returns)
    /\ metrics = NoMetrics
    /\ bt_call = NoBtCall
    /\ backtested = <<>>

CalculateMetricsCall ==
    /\ pc = "call"
    /\ pc' = "done"
    /\ metrics' = CalculateMetrics(m_returns, m_positions)
    /\ UNCHANGED <<entry_threshold, exit_threshold, stop_loss, lookback_period,
                   zscore, signals, position, prices, hedge_ratio, spread, positions,
                   returns, cumulative_returns>>
    /\ UNCHANGED analyzer_vars
    /\ UNCHANGED <<initial_capital, results, m_returns, m_positions, bt_call,
                   backtested>>

NextMetrics == CalculateMetricsCall

SpecMetrics == InitMetrics /\ [][NextMetrics]_vars

(***************************************************************************)
(* PairsTrading.run_strategy, Backtester.backtest_pair and                 *)
(* Backtester.backtest_multiple_pairs                                      *)
(***************************************************************************)
\* run_strategy(prices = rows, hedge_ratio = h) on an engine with the given
\* lookback and thresholds: the results dictionary
RunStrategy(rows, h, lookback, entry, exit, stop) ==
    LET sp == SpreadOf(rows, h)
        zs == CalculateZscore(sp, lookback)
        pos == PositionsOf(GenerateSignals(zs, entry, exit, stop).signals, h)
        ret == CalculateReturns(rows, pos)
    IN  [positions |-> pos, spread |-> sp, zscore |-> zs, returns |-> ret,
         cumulative_returns |-> CumulativeReturns(ret)]

\* a dictionary that keeps the entry a name already has
StoreKeepsFirst(res, name, r) ==
    [m \in DOMAIN res \cup {name} |-> IF m \in DOMAIN res THEN res[m] ELSE r]

\* self.results[pair_name] = results
Store(res, name, r) ==
    [m \in DOMAIN res \cup {name} |-> IF m = name THEN r ELSE res[m]]

\* backtest_pair(strategy_results = b, pair_name = name) up to its return
\* value; calculate_metrics may raise
BacktestPair(b, name, capital) ==
    LET signal == [t \in 1..Len(b.positions) |-> b.positions[t].signal]
        m == CalculateMetrics(b.returns, [given |-> TRUE, signal |-> signal])
    IN  IF m.raised THEN [raised |-> TRUE, result |-> <<>>]
        ELSE [raised |-> FALSE,
              result |->
                [pair_name |-> name,
                 metrics |-> m.record,
                 equity_curve |->
                    [t \in 1..Len(b.cumulative_returns) |->
                        RMul(RInt(capital), RAdd(RInt(1), b.cumulative_returns[t]))],
                 returns |-> b.returns,
                 positions |-> signal,
                 spread |-> b.spread,
                 zscore |-> b.zscore]]

(***************************************************************************)
(* SpecBacktest: calls of backtest_pair and backtest_multiple_pairs on one *)
(* backtester, on the results run_strategy gives for a few price matrices  *)
(* (the empty one among them).  backtested counts, per pair name, the      *)
(* calls of backtest_pair that completed.                                  *)
(***************************************************************************)
MaxCalls == 3

PairNames == {"AB", "CD"}

BacktestPrices ==
    {<<>>,
     <<<<1, 1>>, <<1, 2>>, <<1, 1>>>>,
     <<<<1, 1>>, <<1, 2>>, <<1, 3>>>>}

\* run_strategy with hedge ratio 2 on an engine with lookback 2 that
\* enters and exits at the default exit threshold
StrategyResults ==
    {RunStrategy(P, 2, 2, DefaultExitThreshold, DefaultExitThreshold, DefaultStopLoss) :
        P \in BacktestPrices}

Pairs == {[pair_name |-> n, strategy_results |-> b] :
             n \in PairNames, b \in StrategyResults}

\* the dictionaries pairs_results, as the sequence of their items
PairsResults ==
    {<<>>} \cup {<<p>> : p \in Pairs}
           \cup {pq \in {<<p, q>> : p \in Pairs, q \in Pairs} :
                    pq[1].pair_name # pq[2].pair_name}

Capitals == {1, DefaultInitialCapital}

\* backtest_pair up to its return value, on each pair and initial capital
BacktestPairOn ==
    [p \in Pairs, capital \in Capitals |->
        BacktestPair(p.strategy_results, p.pair_name, capital)]

\* the loop of backtest_multiple_pairs from item i of pairs on: the
\* dictionary of results, the rows of all_metrics, and whether it raised
RECURSIVE BatchLoop(_, _, _, _, _)
BatchLoop(res, rows, pairs, i, capital) ==
    IF i > Len(pairs) THEN [results |-> res, rows |-> rows, raised |-> FALSE]
    ELSE LET r == BacktestPairOn[pairs[i], capital]
         IN  IF r.raised THEN [results |-> res, rows |-> rows, raised |-> TRUE]
             ELSE BatchLoop(Store(res, pairs[i].pair_name, r.result),
                            Append(rows, [pair_name |-> pairs[i].pair_name,
                                          metrics |-> r.result.metrics]),
                            pairs, i + 1, capital)

InitBacktest ==
    /\ EngineIdle
    /\ pc = "calls"
    /\ AnalyzerIdle
    /\ initial_capital \in Capitals
    /\ results = <<>>
    /\ m_returns = <<>>
    /\ m_positions = NoPositions
    /\ metrics = NoMetrics
    /\ bt_call = NoBtCall
    /\ backtested = <<>>

\* one more completed backtest_pair of each of the names
Completed(count, names) ==
    [m \in DOMAIN count \cup names |->
        (IF m \in DOMAIN count THEN count[m] ELSE 0) + (IF m \in names THEN 1 ELSE 0)]

CallBacktestPair ==
    \E p \in Pairs :
        LET r == BacktestPairOn[p, initial_capital]
        IN  /\ bt_call.n_calls < MaxCalls
            /\ results' = IF r.raised THEN results
                          ELSE Store(results, p.pair_name, r.result)
            /\ backtested' = IF r.raised THEN backtested
                             ELSE Completed(backtested, {p.pair_name})
            /\ bt_call' = [op |-> "backtest_pair", n_calls |-> bt_call.n_calls + 1,
                            pairs |-> <<p>>,
                            returned |-> IF r.raised THEN <<>> ELSE <<r.result>>,
                            raised |-> r.raised]
            /\ UNCHANGED <<initial_capital, m_returns, m_positions, metrics>>
            /\ UNCHANGED strategy_vars
            /\ UNCHANGED analyzer_vars

CallBacktestMultiplePairs ==
    \E pairs \in PairsResults :
        LET r == BatchLoop(results, <<>>, pairs, 1, initial_capital)
        IN  /\ bt_call.n_calls < MaxCalls
            /\ results' = r.results
            /\ backtested' =
                  Completed(backtested, {r.rows[k].pair_name : k \in 1..Len(r.rows)})
            /\ bt_call' = [op |-> "backtest_multiple_pairs",
                            n_calls |-> bt_call.n_calls + 1,
                            pairs |-> pairs,
                            returned |-> IF r.raised THEN <<>> ELSE r.rows,
                            raised |-> r.raised]
            /\ UNCHANGED <<initial_capital, m_returns, m_positions, metrics>>
            /\ UNCHANGED strategy_vars
            /\ UNCHANGED analyzer_vars

NextBacktest == CallBacktestPair \/ CallBacktestMultiplePairs

SpecBacktest == InitBacktest /\ [][NextBacktest]_vars

(***************************************************************************)
(* Properties of generate_signals (Spec).  In Spec every defined z-score   *)
(* is v / 10 for an integer v, and the properties are stated on v.         *)
(***************************************************************************)
\* the v of a defined z-score v / 10
ValueOf(z) == CHOOSE v \in AlphabetValues \cup Range(ExampleValues) : Tenths(v) = z

\* this step is an iteration of the loop that reads a defined z-score
ReadsDefined == zscore' # zscore /\ ~IsNa(Last(zscore'))

\* this step is an iteration of the loop that reads NaN
ReadsNaN == zscore' # zscore /\ IsNa(Last(zscore'))

\* C1: an iteration that starts FLAT and reads a defined z makes the position
\* SHORT (-1) if z > entry_threshold, else LONG (+1) if z < -entry_threshold,
\* else FLAT, and records it; with entry_threshold >= 0, z equal to
\* +entry_threshold or -entry_threshold leaves it FLAT.
C1_FromFlat ==
    [][(position = 0 /\ ReadsDefined) =>
        LET v == ValueOf(Last(zscore')) IN
        /\ position' = IF v > entry_threshold THEN -1
                        ELSE IF v < -entry_threshold THEN 1 ELSE 0
        /\ Last(signals') = position'
        /\ (entry_threshold >= 0 /\ (v = entry_threshold \/ v = -entry_threshold))
              => position' = 0]_vars

\* FLAT at z = +entry_threshold (> 0), then SHORT at the next, larger z
C1_Witness ==
    /\ Len(signals) >= 2
    /\ entry_threshold > 0
    /\ zscore[1] = Tenths(entry_threshold) /\ signals[1] = 0
    /\ ~IsNa(zscore[2]) /\ ValueOf(zscore[2]) > entry_threshold /\ signals[2] = -1

\* C2: an iteration that starts LONG (+1) and reads a defined z makes the
\* position FLAT if z > -exit_threshold or z > stop_loss, else leaves it
\* LONG, and records it, whatever the order of the three thresholds.
C2_FromLong ==
    [][(position = 1 /\ ReadsDefined) =>
        LET v == ValueOf(Last(zscore')) IN
        /\ position' = IF v > -exit_threshold \/ v > stop_loss THEN 0 ELSE 1
        /\ Last(signals') = position']_vars

\* thresholds out of the expected order (stop_loss < exit_threshold): a LONG
\* is held at one z and closed at the next by the stop_loss clause alone
C2_Witness ==
    /\ Len(signals) >= 3
    /\ stop_loss < exit_threshold
    /\ signals[1] = 1 /\ signals[2] = 1 /\ signals[3] = 0
    /\ ~IsNa(zscore[2]) /\ ~IsNa(zscore[3])
    /\ ValueOf(zscore[3]) > stop_loss /\ ValueOf(zscore[3]) <= -exit_threshold

\* C3: an iteration that starts SHORT (-1) and reads a defined z makes the
\* position FLAT if z < exit_threshold or z < -stop_loss, else leaves it
\* SHORT, and records it; with entry 2.0, exit 0.5, stop 4.0 the path
\* 0, 2.5, 1.0, 0.3, -0.1 gives FLAT, SHORT, SHORT, FLAT, FLAT.
C3_FromShort ==
    /\ [][(position = -1 /\ ReadsDefined) =>
            LET v == ValueOf(Last(zscore')) IN
            /\ position' = IF v < exit_threshold \/ v < -stop_loss THEN 0 ELSE -1
            /\ Last(signals') = position']_vars
    /\ []((/\ entry_threshold = DefaultEntryThreshold
           /\ exit_threshold = DefaultExitThreshold
           /\ stop_loss = DefaultStopLoss
           /\ zscore = ExamplePath)
            => signals = <<0, -1, -1, 0, 0>>)

\* the example path has been run with the example thresholds
C3_Witness ==
    /\ entry_threshold = DefaultEntryThreshold
    /\ exit_threshold = DefaultExitThreshold
    /\ stop_loss = DefaultStopLoss
    /\ zscore = ExamplePath
    /\ Len(signals) = Len(ExamplePath) /\ signals[2] = -1 /\ signals[4] = 0

\* C4: an iteration that reads NaN records the signal recorded at the
\* previous timestep (FLAT at the first) and leaves position unchanged.
C4_NaNHolds ==
    [][ReadsNaN =>
        /\ Last(signals') = (IF signals = <<>> THEN 0 ELSE Last(signals))
        /\ position' = position]_vars

\* NaN read after the first timestep while LONG or SHORT, and held
C4_Witness ==
    \E k \in 2..Len(signals) :
        /\ IsNa(zscore[k])
        /\ signals[k - 1] # 0
        /\ signals[k] = signals[k - 1]
        /\ position = signals[Len(signals)]

\* every defined z-score read so far lies in [-entry_threshold, entry_threshold]
WithinEntryBand ==
    \A k \in 1..Len(zscore) :
        \/ IsNa(zscore[k])
        \/ /\ -entry_threshold <= ValueOf(zscore[k])
           /\ ValueOf(zscore[k]) <= entry_threshold

\* C5: starting FLAT, while every defined z-score lies in
\* [-entry_threshold, entry_threshold] (NaN allowed), every signal is FLAT.
C5_NeverCrossingStaysFlat ==
    WithinEntryBand => (position = 0 /\ \A k \in 1..Len(signals) : signals[k] = 0)

\* a series of three within the band that touches +entry_threshold and
\* -entry_threshold and holds a NaN
C5_Witness ==
    /\ WithinEntryBand
    /\ Len(signals) >= 3
    /\ entry_threshold > 0
    /\ \E i, j, k \in 1..Len(zscore) :
          /\ zscore[i] = Tenths(entry_threshold)
          /\ zscore[j] = Tenths(-entry_threshold)
          /\ IsNa(zscore[k])
    /\ \A k \in 1..Len(signals) : signals[k] = 0

(***************************************************************************)
(* Properties of calculate_positions (SpecPositions).                      *)
(***************************************************************************)
\* C6: with lookback_period L, calculate_positions gives an undefined z-score
\* and a FLAT signal at each of the first L - 1 timesteps: no position is
\* open before index L - 1.
C6_FlatBeforeWindowFull ==
    pc = "done" =>
        \A t \in 1..Len(prices) :
            t < lookback_period =>
                /\ IsNa(zscore[t])
                /\ signals[t] = 0
                /\ positions[t].signal = 0

\* a position opened at index L - 1, the first with a full window
C6_Witness ==
    /\ pc = "done"
    /\ lookback_period >= 2
    /\ Len(prices) >= lookback_period
    /\ signals[lookback_period] # 0
    /\ \A t \in 1..(lookback_period - 1) : signals[t] = 0

(***************************************************************************)
(* Properties of test_cointegration (SpecScan).                            *)
(***************************************************************************)
\* the place of x in the sequence q
IndexIn(q, x) == CHOOSE k \in 1..Len(q) : q[k] = x

\* the pairs of the scanned matrix in the order of the scan
ScanOrder == Combinations(last_call.prices.columns)

\* C7: the list test_cointegration returns and stores is sorted
\* non-decreasing by p-value, holds no unordered pair twice, and holds a pair
\* only with the p-value of its test and only if that is strictly less than
\* significance_level.
C7_SortedUniqueSignificant ==
    pc = "done" =>
        LET res == last_call.returned
            P == last_call.prices
        IN  /\ cointegrated_pairs = res
            /\ \A i, j \in 1..Len(res) :
                  i < j => /\ res[i][3] <= res[j][3]
                           /\ {res[i][1], res[i][2]} # {res[j][1], res[j][2]}
            /\ \A i \in 1..Len(res) :
                  /\ <<res[i][1], res[i][2]>> \in DOMAIN P.coint
                  /\ P.coint[<<res[i][1], res[i][2]>>] = Pv(res[i][3])
                  /\ res[i][3] < significance_level

\* a scan whose sort changed the order, with a pair left out for a p-value
\* equal to the level
C7_Witness ==
    /\ pc = "done"
    /\ Len(last_call.returned) >= 2
    /\ last_call.returned[1][3] < last_call.returned[2][3]
    /\ IndexIn(ScanOrder, <<last_call.returned[1][1], last_call.returned[1][2]>>)
         > IndexIn(ScanOrder, <<last_call.returned[2][1], last_call.returned[2][2]>>)
    /\ \E pr \in DOMAIN last_call.prices.coint :
          last_call.prices.coint[pr] = Pv(significance_level)

\* C8: a pair whose test raises is left out, every other pair is still
\* tested, and no exception leaves test_cointegration: the result is that of
\* the scan over the pairs whose test does not raise.
C8_RaisingPairsSkipped ==
    pc = "done" =>
        LET res == last_call.returned
            P == last_call.prices
            NotRaising(pr) == ~P.coint[pr].raised
            expected == {<<pr[1], pr[2], P.coint[pr].pvalue>> :
                           pr \in {q \in DOMAIN P.coint :
                                     /\ ~P.coint[q].raised
                                     /\ P.coint[q].pvalue < significance_level}}
        IN  /\ ~last_call.raised
            /\ cointegrated_pairs = res
            /\ \A k \in 1..Len(res) : ~P.coint[<<res[k][1], res[k][2]>>].raised
            /\ Range(res) = expected
            /\ Len(res) = Cardinality(expected)
            /\ res = SortByPvalue(ScanLoop(P, SelectSeq(ScanOrder, NotRaising),
                                            significance_level, <<>>).cointegrated)

\* a pair whose test raises comes in the scan before a pair that is returned
C8_Witness ==
    /\ pc = "done"
    /\ ~last_call.raised
    /\ \E i, j \in 1..Len(ScanOrder) :
          /\ i < j
          /\ last_call.prices.coint[ScanOrder[i]].raised
          /\ \E k \in 1..Len(last_call.returned) :
                ScanOrder[j] = <<last_call.returned[k][1], last_call.returned[k][2]>>

\* C9: two returned pairs with equal p-values are in the order in which
\* combinations of the column list enumerates them.
C9_TiesInScanOrder ==
    pc = "done" =>
        LET res == last_call.returned
        IN  \A i, j \in 1..Len(res) :
                (i < j /\ res[i][3] = res[j][3]) =>
                    IndexIn(ScanOrder, <<res[i][1], res[i][2]>>)
                      < IndexIn(ScanOrder, <<res[j][1], res[j][2]>>)

\* three returned pairs: the pair scanned first has the largest p-value and
\* is returned last, after two pairs with equal p-values
C9_Witness ==
    /\ pc = "done"
    /\ Len(last_call.returned) = 3
    /\ last_call.returned[1][3] = last_call.returned[2][3]
    /\ last_call.returned[2][3] < last_call.returned[3][3]
    /\ ScanOrder[1] = <<last_call.returned[3][1], last_call.returned[3][2]>>

(***************************************************************************)
(* Properties of get_top_pairs (SpecAnalyzer).                             *)
(***************************************************************************)
\* C10: get_top_pairs(prices, n) with n >= 0 scans only when no candidate
\* list has been computed on this analyzer yet, never once a scan has been
\* done, and returns the first min(n, number cached) cached candidates in
\* cached order, each analysed on prices and carrying its cached p-value.
C10_ScansOnlyWhenNeverScanned ==
    [][(last_call'.op = "get_top_pairs" /\ last_call'.n_pairs >= 0) =>
        LET n == last_call'.n_pairs
            m == IF n < Len(cointegrated_pairs') THEN n ELSE Len(cointegrated_pairs')
        IN  /\ (n_scans' # n_scans) <=> (n_scans = 0)
            /\ n_scans > 0 => cointegrated_pairs' = cointegrated_pairs
            /\ ~last_call'.raised
            /\ last_call'.frame =
                  [k \in 1..m |-> AnalysisRow(last_call'.prices, cointegrated_pairs'[k])]
       ]_vars

(***************************************************************************)
(* C11.  The strategy return at a timestep after the first is the position *)
(* of each stock held at the end of the timestep before, times the simple  *)
(* return of that stock over the timestep, summed over the two stocks; the *)
(* return at the first timestep is 0 and no return is undefined.           *)
(***************************************************************************)
\* a * (x1 - x0) / x0 + b * (y1 - y0) / y0 as one fraction
LaggedReturn(a, x0, x1, b, y0, y1) ==
    Ratio(a * (x1 - x0) * y0 + b * (y1 - y0) * x0, x0 * y0)

C11_LaggedPositionsEarnReturns ==
    pc = "returned" =>
        /\ Len(returns) = Len(prices)
        /\ \A t \in 1..Len(returns) :
              /\ ~RIsNa(returns[t])
              /\ t = 1 => returns[t] = RInt(0)
              /\ t > 1 => returns[t] =
                    LaggedReturn(positions[t - 1].stock1, prices[t - 1][1], prices[t][1],
                                 positions[t - 1].stock2, prices[t - 1][2], prices[t][2])

\* a position taken at t - 1 and changed at t earned a nonzero return at t
C11_Witness ==
    /\ pc = "returned"
    /\ \E t \in 2..Len(returns) :
          /\ positions[t - 1].signal # 0
          /\ positions[t].signal # positions[t - 1].signal
          /\ returns[t] # RInt(0)

(***************************************************************************)
(* C12.  Given a position series, n_trades is the number of timesteps      *)
(* where the position differs from the one before and the return is not 0, *)
(* and win_rate is the fraction of exactly those timesteps with a positive *)
(* return (no such timestep: no count is required).                        *)
(***************************************************************************)
\* the timesteps where the position changed
ChangeSteps == {t \in 2..Len(m_returns) :
                  m_positions.signal[t] # m_positions.signal[t - 1]}

\* the timesteps where the position changed and the return is not 0
NonzeroChangeSteps == {t \in ChangeSteps : m_returns[t] # RInt(0)}

Returned == pc = "done" /\ metrics.called /\ ~metrics.raised

C12_TradesHaveNonzeroReturn ==
    (Returned /\ m_positions.given) =>
        LET m == metrics.record
            wins == {t \in NonzeroChangeSteps : IsWin(m_returns[t])}
        IN  IF m.n_trades.none THEN NonzeroChangeSteps = {}
            ELSE /\ m.n_trades.value = Cardinality(NonzeroChangeSteps)
                 /\ NonzeroChangeSteps # {} =>
                       m.win_rate =
                         Some(Ratio(Cardinality(wins), Cardinality(NonzeroChangeSteps)))

(***************************************************************************)
(* C13.  avg_win is None whenever there are no trades or no trade has a    *)
(* positive return, and avg_loss is None whenever there are no trades or   *)
(* no trade has a negative return: no average of an empty subset is        *)
(* reported, as 0 or otherwise.                                            *)
(***************************************************************************)
\* the timesteps calculate_metrics takes as trades
TradeSteps == IF m_positions.given THEN ChangeSteps ELSE {}

C13_NoAverageOfEmptySubset ==
    Returned =>
        /\ (\A t \in TradeSteps : ~IsWin(m_returns[t])) => metrics.record.avg_win.none
        /\ (\A t \in TradeSteps : ~IsLoss(m_returns[t])) => metrics.record.avg_loss.none

(***************************************************************************)
(* C14.  calculate_metrics on a return series of length 0 completes, and   *)
(* the record it returns has annualized_return 0.                          *)
(***************************************************************************)
C14_EmptySeriesCompletes ==
    (pc = "done" /\ metrics.called /\ Len(m_returns) = 0) =>
        /\ ~metrics.raised
        /\ metrics.record.annualized_return = AnnualizedZero

(***************************************************************************)
(* C15.  For a non-empty return series with every return above -1,         *)
(* max_drawdown is the least (cum(t) - peak(t)) / peak(t), cum the running *)
(* product of 1 + r and peak its running maximum; it is never positive, it *)
(* is 0 exactly when cum never falls below its running peak, it is -1/2    *)
(* for the curve 3/2, 3/4, and calmar_ratio is 0 whenever it is 0.         *)
(***************************************************************************)
AboveMinusOne(q) == \A t \in 1..Len(q) : RLt(RInt(-1), q[t])

\* the greatest of cum(1), ..., cum(t)
PeakAt(q, t) ==
    CHOOSE p \in {CumProd(q, k) : k \in 1..t} :
        \A k \in 1..t : ~RLt(p, CumProd(q, k))

DrawdownAt(q, t) == RDiv(RSub(CumProd(q, t), PeakAt(q, t)), PeakAt(q, t))

C15_MaxDrawdownIsDeepestFall ==
    (Returned /\ Len(m_returns) > 0 /\ AboveMinusOne(m_returns)) =>
        LET q == m_returns
            mdd == metrics.record.max_drawdown
        IN  /\ \E t \in 1..Len(q) : mdd = DrawdownAt(q, t)
            /\ \A t \in 1..Len(q) : ~RLt(DrawdownAt(q, t), mdd)
            /\ ~RLt(RInt(0), mdd)
            /\ (mdd = RInt(0)) <=>
                  (\A t \in 1..Len(q) : ~RLt(CumProd(q, t), PeakAt(q, t)))
            /\ (Len(q) = 2 /\ CumProd(q, 1) = Ratio(3, 2) /\ CumProd(q, 2) = Ratio(3, 4))
                  => mdd = Ratio(-1, 2)
            /\ mdd = RInt(0) => metrics.record.calmar_ratio = ZeroQuotient

\* the curve that rises to 3/2 and falls to 3/4 was measured
C15_Witness ==
    /\ Returned
    /\ m_returns = <<Ratio(1, 2), Ratio(-1, 2)>>
    /\ metrics.record.max_drawdown = Ratio(-1, 2)
    /\ metrics.record.calmar_ratio # ZeroQuotient

(***************************************************************************)
(* C16.  An engine constructed with a non-positive lookback or with a      *)
(* negative or zero threshold is rejected at construction: every engine    *)
(* that generates signals has positive thresholds and a positive lookback. *)
(***************************************************************************)
C16_InvalidConfigurationRejected ==
    Len(signals) > 0 =>
        /\ entry_threshold > 0
        /\ exit_threshold > 0
        /\ stop_loss > 0
        /\ lookback_period > 0

(***************************************************************************)
(* C19.  The signal never goes from LONG to SHORT or from SHORT to LONG in *)
(* one timestep: the timestep after a held position records that position *)
(* or FLAT, so after an exit at t the earliest re-entry is at t + 1.       *)
(***************************************************************************)
C19_NoDirectReversal ==
    \A t \in 2..Len(signals) :
        signals[t - 1] # 0 => signals[t] \in {signals[t - 1], 0}

\* LONG left at t on a z beyond the SHORT entry threshold, SHORT entered at t + 1
C19_Witness ==
    \E t \in 2..(Len(signals) - 1) :
        /\ entry_threshold > 0
        /\ exit_threshold > 0
        /\ signals[t - 1] = 1
        /\ signals[t] = 0
        /\ ~IsNa(zscore[t])
        /\ Gt(zscore[t], entry_threshold)
        /\ signals[t + 1] = -1

(***************************************************************************)
(* C20.  With exit_threshold and stop_loss strictly positive the signals   *)
(* do not depend on stop_loss: every positive stop_loss gives the same     *)
(* signals, a LONG position is held at every z <= -exit_threshold and a    *)
(* SHORT position at every z >= exit_threshold, however extreme.           *)
(***************************************************************************)
C20_StopLossIsInert ==
    (exit_threshold > 0 /\ stop_loss > 0) =>
        /\ \A other \in {v \in ThresholdValues : v > 0} :
              GenerateSignals(zscore, entry_threshold, exit_threshold, other).signals
                = signals
        /\ \A t \in 2..Len(signals) :
              /\ (signals[t - 1] = 1 /\ ~IsNa(zscore[t])
                    /\ ~Gt(zscore[t], -exit_threshold)) => signals[t] = 1
              /\ (signals[t - 1] = -1 /\ ~IsNa(zscore[t])
                    /\ ~Lt(zscore[t], exit_threshold)) => signals[t] = -1

\* a LONG position held at a z-score below -stop_loss
C20_Witness ==
    /\ exit_threshold > 0
    /\ stop_loss > 0
    /\ \E t \in 2..Len(signals) :
          /\ signals[t - 1] = 1
          /\ signals[t] = 1
          /\ ~IsNa(zscore[t])
          /\ Lt(zscore[t], -stop_loss)

(***************************************************************************)
(* C17.  In backtest_multiple_pairs a pair whose backtest fails does not   *)
(* abort the batch: the call returns, and every pair whose backtest does   *)
(* not fail is stored in results and is a row of the returned table, in    *)
(* the order of the input.                                                 *)
(***************************************************************************)
\* backtest_pair of p does not raise
Backtestable(p) == ~BacktestPairOn[p, initial_capital].raised

C17_BatchSurvivesFailingPair ==
    bt_call.op = "backtest_multiple_pairs" =>
        LET good == SelectSeq(bt_call.pairs, Backtestable)
        IN  /\ ~bt_call.raised
            /\ Len(bt_call.returned) = Len(good)
            /\ \A k \in 1..Len(good) :
                  /\ bt_call.returned[k].pair_name = good[k].pair_name
                  /\ good[k].pair_name \in DOMAIN results
                  /\ results[good[k].pair_name] =
                        BacktestPairOn[good[k], initial_capital].result

(***************************************************************************)
(* C18.  Every call of backtest_pair or backtest_multiple_pairs leaves     *)
(* initial_capital as it was and results holding exactly the names whose   *)
(* backtest has completed; the entry of a name backtested by the call is   *)
(* the result of the call's backtest of that name, and the entry of every  *)
(* other name is what it was.                                              *)
(***************************************************************************)
CountOf(count, n) == IF n \in DOMAIN count THEN count[n] ELSE 0

C18_ResultsTrackBacktests ==
    [][ /\ initial_capital' = initial_capital
        /\ DOMAIN results' = {n \in PairNames : CountOf(backtested', n) > 0}
        /\ \A n \in DOMAIN results' :
              IF CountOf(backtested', n) > CountOf(backtested, n)
              THEN \E k \in 1..Len(bt_call'.pairs) :
                     /\ bt_call'.pairs[k].pair_name = n
                     /\ results'[n] =
                           BacktestPairOn[bt_call'.pairs[k], initial_capital].result
                     /\ results'[n].pair_name = n
                     /\ results'[n].returns = bt_call'.pairs[k].strategy_results.returns
              ELSE n \in DOMAIN results /\ results'[n] = results[n]
      ]_vars

\* a name backtested again, by a call that returned, while the other name
\* has an entry too
C18_Witness ==
    /\ bt_call.op = "backtest_pair"
    /\ ~bt_call.raised
    /\ CountOf(backtested, bt_call.pairs[1].pair_name) >= 2
    /\ DOMAIN results = PairNames
    /\ results[bt_call.pairs[1].pair_name] = bt_call.returned[1]

(***************************************************************************)
(* C21.  Every pair in the table get_top_pairs(P, n) returns is a          *)
(* candidate (pair and p-value) that test_cointegration returns for that   *)
(* same matrix P: a list cached from a scan of another matrix never        *)
(* answers a request about P.                                              *)
(***************************************************************************)
C21_TopPairsAreCandidatesOfRequest ==
    (last_call.op = "get_top_pairs" /\ ~last_call.raised) =>
        LET scan == ScanOf(last_call.prices, significance_level)
        IN  \A k \in 1..Len(last_call.frame) :
              /\ ~scan.raised
              /\ <<last_call.frame[k].stock1, last_call.frame[k].stock2,
                    last_call.frame[k].coint_pvalue>> \in Range(scan.cointegrated)

(***************************************************************************)
(* C22.  In the output of run_strategy the return at t is 0 whenever the   *)
(* signal at t - 1 is FLAT: so it is 0 at every entry timestep and at each *)
(* of the first lookback_period timesteps, and cumulative_returns is 0     *)
(* over those first timesteps.                                             *)
(***************************************************************************)
C22_FlatEarnsNothing ==
    pc = "returned" =>
        \A t \in 1..Len(returns) :
            /\ (t > 1 /\ positions[t - 1].signal = 0) => returns[t] = RInt(0)
            /\ (t > 1 /\ positions[t - 1].signal = 0 /\ positions[t].signal # 0)
                  => returns[t] = RInt(0)
            /\ t <= lookback_period =>
                  /\ returns[t] = RInt(0)
                  /\ cumulative_returns[t] = RInt(0)

\* an entry at the last timestep of the first lookback_period, at which
\* both prices moved, followed by a timestep with a nonzero return
C22_Witness ==
    /\ pc = "returned"
    /\ \E t \in 2..(Len(returns) - 1) :
          /\ t = lookback_period
          /\ positions[t - 1].signal = 0
          /\ positions[t].signal # 0
          /\ prices[t][1] # prices[t - 1][1]
          /\ prices[t][2] # prices[t - 1][2]
          /\ returns[t] = RInt(0)
          /\ returns[t + 1] # RInt(0)
          /\ cumulative_returns[t + 1] # RInt(0)

====
